---- MODULE Spec2Model ----
(***************************************************************************)
(* Model of traefik-fallback-ingressroute: the IngressMigrator class of    *)
(* src/traefik_fallback_ingressroute/migrator.py driven by src/main.py.    *)
(*                                                                         *)
(* Python dicts are functions on the set of keys they hold, so a missing   *)
(* key is a key outside DOMAIN; dict.get(k) on a missing key yields None.  *)
(* JSON null values are not modelled: a key is either absent or holds a    *)
(* value.  Scalars (names, hosts, paths, ports) are strings and are passed *)
(* through untouched by the code; a numeric port is written "8080".        *)
(* The backquote of the Traefik match syntax cannot be written inside a    *)
(* TLA+ string literal, so BT stands for it.                               *)
(***************************************************************************)
EXTENDS Integers, Sequences, FiniteSets, TLC

VARIABLES
    cluster,               \* what `kubectl get ingress -A -o json` prints now
    file,                  \* content of tmp/ingresses.json
    generate_new_spec,     \* self.generate_new_spec
    middleware_namespace,  \* self.middleware_namespace
    fallback_namespace,    \* self.fallback_namespace
    pc,                    \* position in __main__
    items,                 \* local `items` of the running method
    idx,                   \* 1-based position of the `for item in items` loop
    routes,                \* local `routes` of get_fallback_ingressroute
    middleware,            \* local `middleware` of get_all_middlewares
    sink,                  \* files written under tmp/: file name -> document
    pulled,                \* history: the lists _get_traefik_v1_ingress_spec returned
    err                    \* an exception escaped to __main__

vars == <<cluster, file, generate_new_spec, middleware_namespace,
          fallback_namespace, pc, items, idx, routes, middleware, sink,
          pulled, err>>

-----------------------------------------------------------------------------
(* Python values *)

EmptyDict == [k \in {} |-> k]

None == "<None>"

BT == "'"

Has(d, k) == k \in DOMAIN d

Get(d, k, default) == IF Has(d, k) THEN d[k] ELSE default

Str(x) == IF x = None THEN "None" ELSE x

DefaultPriority == 2

-----------------------------------------------------------------------------
(* _get_traefik_v1_ingress_spec: the part after the optional export *)

GetItems(data) == IF Has(data, "items") THEN data.items ELSE <<>>

(* _get_service_entry preferring the named port over the numeric one *)

GetServiceEntry_NamedPortFirst(path, namespace) ==
    IF ~Has(path, "backend") THEN EmptyDict
    ELSE LET backend == path.backend IN
         IF ~Has(backend, "service") THEN EmptyDict
         ELSE LET service == backend.service
                  svc_name == Get(service, "name", None)
              IN IF ~Has(service, "port") THEN EmptyDict
                 ELSE LET port == service.port
                          svc_port == IF Has(port, "name") THEN port.name
                                      ELSE Get(port, "number", None)
                      IN [kind |-> "Service", name |-> svc_name,
                          namespace |-> namespace, port |-> svc_port]

(* _get_service_entry *)

GetServiceEntry(path, namespace) ==
    IF ~Has(path, "backend") THEN EmptyDict
    ELSE LET backend == path.backend IN
         IF ~Has(backend, "service") THEN EmptyDict
         ELSE LET service == backend.service
                  svc_name == Get(service, "name", None)
              IN IF ~Has(service, "port") THEN EmptyDict
                 ELSE LET port == service.port
                          svc_port == IF Has(port, "number") THEN port.number
                                      ELSE Get(port, "name", None)
                      IN [kind |-> "Service", name |-> svc_name,
                          namespace |-> namespace, port |-> svc_port]

(* _get_rule_match without `need_middleware = False` in the "/" branch *)

GetRuleMatch_RootNeedsMiddleware(path, host) ==
    LET uri == Get(path, "path", "NO_PATH_KEY")
        host_match == IF host = "NO_HOST_KEY"
                      THEN "HostRegexp(" \o BT \o "{domain:.+}" \o BT \o ")"
                      ELSE "Host(" \o BT \o host \o BT \o ")"
        path_match == IF uri = "NO_PATH_KEY" THEN ""
                      ELSE IF uri = "/" THEN "Path(" \o BT \o "/" \o BT \o ")"
                      ELSE "PathPrefix(" \o BT \o uri \o BT \o ")"
        need_middleware == ~(uri = "NO_PATH_KEY")
    IN IF uri = "NO_PATH_KEY" THEN <<host_match, need_middleware>>
       ELSE <<host_match \o " && " \o path_match, need_middleware>>

(* _get_rule_match matching "/" as a prefix like any other path *)

GetRuleMatch_RootAsPrefix(path, host) ==
    LET uri == Get(path, "path", "NO_PATH_KEY")
        host_match == IF host = "NO_HOST_KEY"
                      THEN "HostRegexp(" \o BT \o "{domain:.+}" \o BT \o ")"
                      ELSE "Host(" \o BT \o host \o BT \o ")"
        path_match == IF uri = "NO_PATH_KEY" THEN ""
                      ELSE "PathPrefix(" \o BT \o uri \o BT \o ")"
        need_middleware == ~(uri = "NO_PATH_KEY") /\ ~(uri = "/")
    IN IF uri = "NO_PATH_KEY" THEN <<host_match, need_middleware>>
       ELSE <<host_match \o " && " \o path_match, need_middleware>>

(* _get_rule_match: <<match, need_middleware>> *)

GetRuleMatch(path, host) ==
    LET uri == Get(path, "path", "NO_PATH_KEY")
        host_match == IF host = "NO_HOST_KEY"
                      THEN "HostRegexp(" \o BT \o "{domain:.+}" \o BT \o ")"
                      ELSE "Host(" \o BT \o host \o BT \o ")"
        path_match == IF uri = "NO_PATH_KEY" THEN ""
                      ELSE IF uri = "/" THEN "Path(" \o BT \o "/" \o BT \o ")"
                      ELSE "PathPrefix(" \o BT \o uri \o BT \o ")"
        need_middleware == ~(uri = "NO_PATH_KEY") /\ ~(uri = "/")
    IN IF uri = "NO_PATH_KEY" THEN <<host_match, need_middleware>>
       ELSE <<host_match \o " && " \o path_match, need_middleware>>

(* _get_routes: the body of `for path in paths` *)

Route(name, namespace, host, path, priority, mwns) ==
    LET rule_match_cases == GetRuleMatch(path, Str(host))
        rule_match == rule_match_cases[1]
        need_middleware == rule_match_cases[2]
        service_entry == GetServiceEntry(path, namespace)
        r0 == [kind |-> "Rule"]
        r1 == IF rule_match # "" THEN r0 @@ [match |-> rule_match] ELSE r0
        r2 == IF need_middleware
              THEN r1 @@ [middlewares |->
                            <<[name |-> name \o "-mw", namespace |-> mwns]>>]
              ELSE r1
        r3 == r2 @@ [priority |-> priority]
    IN IF service_entry # EmptyDict
       THEN r3 @@ [services |-> <<service_entry>>]
       ELSE r3

RECURSIVE RoutesOfPaths(_, _, _, _, _, _)
RoutesOfPaths(name, namespace, host, paths, priority, mwns) ==
    IF paths = <<>> THEN <<>>
    ELSE <<Route(name, namespace, host, Head(paths), priority, mwns)>>
         \o RoutesOfPaths(name, namespace, host, Tail(paths), priority, mwns)

(* _get_routes: the body of `for rule in rules` *)

RoutesOfRule(name, namespace, rule, priority, mwns) ==
    LET host == Get(rule, "host", "NO_HOST_KEY") IN
    IF ~Has(rule, "http") THEN <<>>
    ELSE IF ~Has(rule.http, "paths") THEN <<>>
    ELSE RoutesOfPaths(name, namespace, host, rule.http.paths, priority, mwns)

RECURSIVE GetRoutes(_, _, _, _, _)
GetRoutes(name, namespace, rules, priority, mwns) ==
    IF rules = <<>> THEN <<>>
    ELSE RoutesOfRule(name, namespace, Head(rules), priority, mwns)
         \o GetRoutes(name, namespace, Tail(rules), priority, mwns)

(* _get_middleware *)

RECURSIVE PrefixesOfPaths(_)
PrefixesOfPaths(paths) ==
    IF paths = <<>> THEN <<>>
    ELSE LET uri == Get(Head(paths), "path", None) IN
         (IF uri # "/" THEN <<uri>> ELSE <<>>) \o PrefixesOfPaths(Tail(paths))

RECURSIVE Prefixes(_)
Prefixes(rules) ==
    IF rules = <<>> THEN <<>>
    ELSE LET rule == Head(rules) IN
         (IF ~Has(rule, "http") THEN <<>>
          ELSE IF ~Has(rule.http, "paths") THEN <<>>
          ELSE PrefixesOfPaths(rule.http.paths))
         \o Prefixes(Tail(rules))

GetMiddleware(name, rules) ==
    LET prefixes == Prefixes(rules) IN
    IF prefixes # <<>>
    THEN [apiVersion |-> "traefik.containo.us/v1alpha1",
          kind |-> "Middleware",
          metadata |-> [name |-> name \o "-mw", namespace |-> "kube-system"],
          spec |-> [stripPrefix |-> [prefixes |-> prefixes]]]
    ELSE EmptyDict

(* flat_list with the sublists taken last resource first *)

RECURSIVE Flatten_LastFirst(_)
Flatten_LastFirst(lists) ==
    IF lists = <<>> THEN <<>>
    ELSE Flatten_LastFirst(Tail(lists)) \o Head(lists)

(* get_fallback_ingressroute: flat_list and the document *)

RECURSIVE Flatten(_)
Flatten(lists) ==
    IF lists = <<>> THEN <<>> ELSE Head(lists) \o Flatten(Tail(lists))

Fallback(flat_list, fbns) ==
    [apiVersion |-> "traefik.containo.us/v1alpha1",
     kind |-> "IngressRoute",
     metadata |-> [name |-> "traefik-v1-fallback", namespace |-> fbns],
     spec |-> [entryPoints |-> <<"web">>, routes |-> flat_list]]

IngressRouteFile == "tmp/ingressroute.yaml"

MiddlewareFile(name) == "tmp/middleware-" \o name \o ".yaml"

(* get_fallback_ingressroute and get_all_middlewares without their
   `if rules is not None`: iterating None raises TypeError *)
ItemRaises_RulesRequired(item) ==
    \/ ~Has(item, "metadata")
    \/ ~Has(item, "spec")
    \/ ~Has(item.spec, "rules")

(* item.get("metadata") or item.get("spec") is None: metadata.get / spec.get
   raises AttributeError *)
ItemRaises(item) == ~Has(item, "metadata") \/ ~Has(item, "spec")

-----------------------------------------------------------------------------
(* The run of src/main.py *)

(* _get_traefik_v1_ingress_spec: with generate_new_spec the output of kubectl
   replaces tmp/ingresses.json, then the file is read *)
Exported == IF generate_new_spec THEN cluster ELSE file

FallbackPull ==
    /\ pc = "get_fallback_ingressroute"
    /\ file' = Exported
    /\ items' = GetItems(Exported)
    /\ pulled' = Append(pulled, GetItems(Exported))
    /\ routes' = <<>>
    /\ idx' = 1
    /\ pc' = "routes"
    /\ UNCHANGED <<cluster, generate_new_spec, middleware_namespace,
                   fallback_namespace, middleware, sink, err>>

RoutesStep ==
    /\ pc = "routes"
    /\ idx <= Len(items)
    /\ LET item == items[idx] IN
       IF ItemRaises(item)
       THEN /\ err' = TRUE
            /\ pc' = "raised"
            /\ UNCHANGED <<routes, idx>>
       ELSE LET metadata == item.metadata
                spec == item.spec
                name == Get(metadata, "name", None)
                namespace == Get(metadata, "namespace", "default")
            IN /\ routes' = IF Has(spec, "rules")
                            THEN Append(routes,
                                        GetRoutes(Str(name), Str(namespace),
                                                  spec.rules, DefaultPriority,
                                                  middleware_namespace))
                            ELSE routes
               /\ idx' = idx + 1
               /\ UNCHANGED <<pc, err>>
    /\ UNCHANGED <<cluster, file, generate_new_spec, middleware_namespace,
                   fallback_namespace, items, middleware, sink, pulled>>

WriteIngressRoute ==
    /\ pc = "routes"
    /\ idx > Len(items)
    /\ sink' = (IngressRouteFile :> Fallback(Flatten(routes), fallback_namespace))
               @@ sink
    /\ pc' = "get_all_middlewares"
    /\ UNCHANGED <<cluster, file, generate_new_spec, middleware_namespace,
                   fallback_namespace, items, idx, routes, middleware, pulled,
                   err>>

MiddlewaresPull ==
    /\ pc = "get_all_middlewares"
    /\ file' = Exported
    /\ items' = GetItems(Exported)
    /\ pulled' = Append(pulled, GetItems(Exported))
    /\ idx' = 1
    /\ pc' = "middlewares"
    /\ UNCHANGED <<cluster, generate_new_spec, middleware_namespace,
                   fallback_namespace, routes, middleware, sink, err>>

MiddlewareStep ==
    /\ pc = "middlewares"
    /\ idx <= Len(items)
    /\ LET item == items[idx] IN
       IF ItemRaises(item)
       THEN /\ err' = TRUE
            /\ pc' = "raised"
            /\ UNCHANGED <<middleware, sink, idx>>
       ELSE LET metadata == item.metadata
                spec == item.spec
                name == Get(metadata, "name", None)
            IN /\ IF Has(spec, "rules")
                  THEN LET mw == GetMiddleware(Str(name), spec.rules) IN
                       /\ middleware' = mw
                       /\ sink' = IF mw # EmptyDict
                                  THEN (MiddlewareFile(Str(name)) :> mw) @@ sink
                                  ELSE sink
                  ELSE UNCHANGED <<middleware, sink>>
               /\ idx' = idx + 1
               /\ UNCHANGED <<pc, err>>
    /\ UNCHANGED <<cluster, file, generate_new_spec, middleware_namespace,
                   fallback_namespace, items, routes, pulled>>

MiddlewaresReturn ==
    /\ pc = "middlewares"
    /\ idx > Len(items)
    /\ pc' = "done"
    /\ UNCHANGED <<cluster, file, generate_new_spec, middleware_namespace,
                   fallback_namespace, items, idx, routes, middleware, sink,
                   pulled, err>>

(* The cluster is live while the program runs: an ingress is deleted. *)
ClusterChange ==
    /\ pc \notin {"done", "raised"}
    /\ Has(cluster, "items")
    /\ Len(cluster.items) > 0
    /\ cluster' = [items |-> SubSeq(cluster.items, 1, Len(cluster.items) - 1)]
    /\ UNCHANGED <<file, generate_new_spec, middleware_namespace,
                   fallback_namespace, pc, items, idx, routes, middleware,
                   sink, pulled, err>>

Program ==
    \/ FallbackPull
    \/ RoutesStep
    \/ WriteIngressRoute
    \/ MiddlewaresPull
    \/ MiddlewareStep
    \/ MiddlewaresReturn

Next == Program \/ ClusterChange

-----------------------------------------------------------------------------
(* Input snapshots *)

MaxItems == 2

MaxRules == 2

MaxPathEntries == 3

RECURSIVE SeqsOfLen(_, _)
SeqsOfLen(S, n) ==
    IF n = 0 THEN {<<>>}
    ELSE {<<x>> \o s : x \in S, s \in SeqsOfLen(S, n - 1)}

SeqsUpTo(S, n) == UNION {SeqsOfLen(S, k) : k \in 0..n}

Backend(name, port) == [service |-> [name |-> name, port |-> [number |-> port]]]

Item(name, namespace, rules) ==
    [metadata |-> [name |-> name, namespace |-> namespace],
     spec |-> [rules |-> rules]]

(* Resources of the aggregate runs: the spec's scenarios, resources sharing a
   name, and resources with each optional field missing. *)
Catalogue ==
    { Item("app1", "ns1",
           <<[host |-> "a.example.com",
              http |-> [paths |-> <<[path |-> "/api",
                                     backend |-> Backend("svc1", "8080")]>>]]>>),
      Item("app1", "ns2",
           <<[host |-> "b.example.com",
              http |-> [paths |-> <<[path |-> "/web",
                                     backend |-> Backend("svc2", "80")]>>]]>>),
      Item("app1", "ns1",
           <<[host |-> "a.example.com",
              http |-> [paths |-> <<[path |-> "/",
                                     backend |-> Backend("svc1", "8080")]>>]]>>),
      [metadata |-> [name |-> "app2"],
       spec |-> [rules |-> <<[http |-> [paths |-> <<[path |-> "/",
                                     backend |-> Backend("svc2", "80")]>>]]>>]],
      [metadata |-> [name |-> "app2", namespace |-> "ns1"], spec |-> EmptyDict],
      Item("app3", "ns1",
           <<[host |-> "a.example.com",
              http |-> [paths |-> <<[path |-> "/api",
                                     backend |-> Backend("svc1", "8080")],
                                    [path |-> "/",
                                     backend |-> Backend("svc2", "80")]>>]],
             [http |-> [paths |-> <<[path |-> "/web",
                                     backend |-> Backend("svc2", "80")]>>]]>>),
      [metadata |-> [name |-> "app3"],
       spec |-> [rules |-> <<[host |-> "a.example.com"],
                             [host |-> "b.example.com", http |-> EmptyDict]>>]],
      Item("app4", "ns2",
           <<[host |-> "b.example.com",
              http |-> [paths |-> <<[backend |-> Backend("svc1", "8080")],
                                    [path |-> "/web"]>>]]>>),
      Item("app4", "ns1", <<>>),
      [metadata |-> [name |-> "app5", namespace |-> "ns1"]] }

Snapshots ==
    {[items |-> s] : s \in SeqsUpTo(Catalogue, MaxItems)} \cup {EmptyDict}

(* Rule lists of one resource: at most MaxRules rules holding at most
   MaxPathEntries path entries in all. *)
RulePaths == {"/", "/api", "/web"}

RuleEntries ==
    {[backend |-> Backend("svc1", "8080")]}
    \cup {[path |-> p, backend |-> Backend("svc1", "8080")] : p \in RulePaths}

RulesOfSize(n) ==
    {[host |-> "a.example.com", http |-> [paths |-> ps]] :
        ps \in SeqsOfLen(RuleEntries, n)}
    \cup (IF n = 0 THEN {[host |-> "a.example.com"],
                         [host |-> "a.example.com", http |-> EmptyDict]}
          ELSE {})

RECURSIVE RuleLists(_, _)
RuleLists(k, m) ==
    IF k = 0 THEN {<<>>}
    ELSE UNION {{<<r>> \o rest : r \in RulesOfSize(n),
                                 rest \in RuleLists(k - 1, m - n)} : n \in 0..m}

RuleSnapshots ==
    {[items |-> <<Item("app1", "ns1", rules)>>] :
        rules \in UNION {RuleLists(k, MaxPathEntries) : k \in 0..MaxRules}}

(* One resource with one rule and one path entry, each field over its cases. *)
EntryHosts == {"a.example.com", "NO_HOST_KEY"}

EntryPaths == {"", "/", "/api", "NO_PATH_KEY"}

EntryServices ==
    {EmptyDict, [name |-> "svc1"], [port |-> [number |-> "8080"]]}
    \cup {[name |-> "svc1", port |-> p] :
            p \in {EmptyDict, [number |-> "8080"], [name |-> "http"],
                   [number |-> "8080", name |-> "http"]}}

EntryBackends == {EmptyDict} \cup {[service |-> s] : s \in EntryServices}

EntryPathEntries ==
    LET withPath == {EmptyDict} \cup {[path |-> p] : p \in EntryPaths}
        withBackend == {EmptyDict} \cup {[backend |-> b] : b \in EntryBackends}
    IN {p @@ b : p \in withPath, b \in withBackend}

EntryRules ==
    {h @@ [http |-> [paths |-> <<e>>]] :
        h \in {EmptyDict} \cup {[host |-> x] : x \in EntryHosts},
        e \in EntryPathEntries}

EntrySnapshots ==
    {[items |-> <<[metadata |-> [name |-> "app1"] @@ ns,
                   spec |-> [rules |-> <<r>>]]>>] :
        ns \in {EmptyDict, [namespace |-> "ns1"]}, r \in EntryRules}

-----------------------------------------------------------------------------
(* Construction: IngressMigrator.__init__ and the state before line 9 of
   main.py.  tmp/ingresses.json holds an earlier export of the cluster. *)

Start(snapshot) ==
    /\ cluster = snapshot
    /\ file = snapshot
    /\ fallback_namespace = "kube-system"
    /\ pc = "get_fallback_ingressroute"
    /\ items = <<>>
    /\ idx = 1
    /\ routes = <<>>
    /\ middleware = EmptyDict
    /\ sink = EmptyDict
    /\ pulled = <<>>
    /\ err = FALSE

Init ==
    /\ generate_new_spec \in BOOLEAN
    /\ middleware_namespace \in {"traefik-middleware", "kube-system"}
    /\ \E snapshot \in Snapshots : Start(snapshot)

InitRules ==
    /\ generate_new_spec = FALSE
    /\ middleware_namespace = "traefik-middleware"
    /\ \E snapshot \in RuleSnapshots : Start(snapshot)

InitEntry ==
    /\ generate_new_spec = FALSE
    /\ middleware_namespace \in {"traefik-middleware", "kube-system"}
    /\ \E snapshot \in EntrySnapshots : Start(snapshot)

Spec == Init /\ [][Next]_vars

SpecRules == InitRules /\ [][Next]_vars

SpecEntry == InitEntry /\ [][Next]_vars

-----------------------------------------------------------------------------
(* What the claims speak of: the (resource, rule, path entry) triples of a
   pulled list in resource, rule, path order, and the written documents. *)

RulesOfItem(item) ==
    IF Has(item, "spec") /\ Has(item.spec, "rules") THEN item.spec.rules ELSE <<>>

PathsOfRule(rule) ==
    IF Has(rule, "http") /\ Has(rule.http, "paths") THEN rule.http.paths ELSE <<>>

Pairs(its) ==
    UNION {UNION {{<<i, j, k>> : k \in 1..Len(PathsOfRule(RulesOfItem(its[i])[j]))} :
                    j \in 1..Len(RulesOfItem(its[i]))} :
             i \in 1..Len(its)}

Before(u, t) ==
    \/ u[1] < t[1]
    \/ u[1] = t[1] /\ u[2] < t[2]
    \/ u[1] = t[1] /\ u[2] = t[2] /\ u[3] < t[3]

PairSeq(its) ==
    LET T == Pairs(its) IN
    [n \in 1..Cardinality(T) |->
        CHOOSE t \in T : Cardinality({u \in T : Before(u, t)}) = n - 1]

ItemOf(its, t) == its[t[1]]

RuleOf(its, t) == its[t[1]].spec.rules[t[2]]

EntryOf(its, t) == its[t[1]].spec.rules[t[2]].http.paths[t[3]]

NameOf(item) == IF Has(item.metadata, "name") THEN item.metadata.name ELSE "None"

NamespaceOf(item) ==
    IF Has(item.metadata, "namespace") THEN item.metadata.namespace ELSE "default"

Written == Has(sink, IngressRouteFile)

WrittenRoutes == sink[IngressRouteFile].spec.routes

(* The routes of the written document line up with the triples of the list
   pulled by get_fallback_ingressroute. *)
Aligned == Len(WrittenRoutes) = Cardinality(Pairs(pulled[1]))

MiddlewareDocs == {sink[f] : f \in {g \in DOMAIN sink : g # IngressRouteFile}}

HostClause(rule) ==
    IF ~Has(rule, "host") THEN "HostRegexp('{domain:.+}')"
    ELSE "Host('" \o rule.host \o "')"

HostClauseAmended(rule) ==
    IF ~Has(rule, "host") \/ Get(rule, "host", "") = "NO_HOST_KEY"
    THEN "HostRegexp('{domain:.+}')"
    ELSE "Host('" \o rule.host \o "')"

-----------------------------------------------------------------------------
(* C1, as stated: a route carries `middlewares` iff its path entry's path is
   present and is not "/", and then it is exactly the one reference
   {name: "<resource-name>-mw", namespace: <configured middleware namespace>}.
   Violated by a path entry whose path is the string "NO_PATH_KEY". *)
C1_AsStated ==
    Written =>
        /\ Aligned
        /\ \A n \in 1..Len(WrittenRoutes) :
              LET t == PairSeq(pulled[1])[n]
                  e == EntryOf(pulled[1], t)
                  r == WrittenRoutes[n]
              IN /\ Has(r, "middlewares") <=> (Has(e, "path") /\ e.path # "/")
                 /\ Has(r, "middlewares") =>
                       r.middlewares =
                         <<[name |-> NameOf(ItemOf(pulled[1], t)) \o "-mw",
                            namespace |-> middleware_namespace]>>

(* C1, amended: a route carries `middlewares` iff its path entry's path is
   present, is not "/" and is not the string "NO_PATH_KEY"; it is then exactly
   the one reference {name: "<resource-name>-mw", namespace: <configured
   middleware namespace>}. *)
C1_MiddlewaresIffPrefixPath ==
    Written =>
        /\ Aligned
        /\ \A n \in 1..Len(WrittenRoutes) :
              LET t == PairSeq(pulled[1])[n]
                  e == EntryOf(pulled[1], t)
                  r == WrittenRoutes[n]
              IN /\ Has(r, "middlewares") <=>
                       (Has(e, "path") /\ e.path # "/" /\ e.path # "NO_PATH_KEY")
                 /\ Has(r, "middlewares") =>
                       r.middlewares =
                         <<[name |-> NameOf(ItemOf(pulled[1], t)) \o "-mw",
                            namespace |-> middleware_namespace]>>

(* C1 witness: the route of a path entry with path "/api" has been written
   with a middleware reference in the default middleware namespace. *)
C1_Witness ==
    /\ Written
    /\ Len(WrittenRoutes) = 1
    /\ Has(WrittenRoutes[1], "middlewares")
    /\ middleware_namespace = "traefik-middleware"
    /\ EntryOf(pulled[1], <<1, 1, 1>>) = [path |-> "/api"]

(* C2, as stated: match is the host clause alone when the path is absent,
   host clause && Path('/') for "/", host clause && PathPrefix('<path>')
   otherwise; the host clause is HostRegexp('{domain:.+}') when the rule
   declares no host and Host('<host>') otherwise; match is never empty.
   Violated by a declared host "NO_HOST_KEY" and by a declared path
   "NO_PATH_KEY". *)
C2_AsStated ==
    Written =>
        /\ Aligned
        /\ \A n \in 1..Len(WrittenRoutes) :
              LET t == PairSeq(pulled[1])[n]
                  e == EntryOf(pulled[1], t)
                  h == HostClause(RuleOf(pulled[1], t))
                  r == WrittenRoutes[n]
              IN /\ Has(r, "match")
                 /\ r.match # ""
                 /\ r.match = IF ~Has(e, "path") THEN h
                              ELSE IF e.path = "/" THEN h \o " && Path('/')"
                              ELSE h \o " && PathPrefix('" \o e.path \o "')"

(* C2, amended: as stated, except that a declared host "NO_HOST_KEY" gives the
   host clause HostRegexp('{domain:.+}') like a missing host, and a declared
   path "NO_PATH_KEY" gives the host clause alone like a missing path. *)
C2_MatchExpression ==
    Written =>
        /\ Aligned
        /\ \A n \in 1..Len(WrittenRoutes) :
              LET t == PairSeq(pulled[1])[n]
                  e == EntryOf(pulled[1], t)
                  h == HostClauseAmended(RuleOf(pulled[1], t))
                  r == WrittenRoutes[n]
              IN /\ Has(r, "match")
                 /\ r.match # ""
                 /\ r.match = IF ~Has(e, "path") \/ Get(e, "path", "") = "NO_PATH_KEY"
                              THEN h
                              ELSE IF e.path = "/" THEN h \o " && Path('/')"
                              ELSE h \o " && PathPrefix('" \o e.path \o "')"

(* C2 witness: the route of a rule without host and with path "/" has been
   written. *)
C2_Witness ==
    /\ Written
    /\ Len(WrittenRoutes) = 1
    /\ ~Has(RuleOf(pulled[1], <<1, 1, 1>>), "host")
    /\ Get(EntryOf(pulled[1], <<1, 1, 1>>), "path", "") = "/"
    /\ WrittenRoutes[1].match = "HostRegexp('{domain:.+}') && Path('/')"

-----------------------------------------------------------------------------
(* The paths of a resource that are present and not "/", in rule then path
   order. *)
StrippedPaths(item) ==
    LET one == <<item>>
        T == {t \in Pairs(one) :
                Has(EntryOf(one, t), "path") /\ EntryOf(one, t).path # "/"}
    IN [n \in 1..Cardinality(T) |->
          EntryOf(one, CHOOSE t \in T : Cardinality({u \in T : Before(u, t)}) = n - 1).path]

(* The resource get_all_middlewares has just handled. *)
HandledByMiddlewares == pc = "middlewares" /\ idx > 1

(* C3: the prefix list of _get_middleware holds exactly the paths that are
   present and not "/", in encounter order; a path entry without `path` adds
   nothing; with an empty list no middleware document is produced.  Violated:
   a path entry without `path` adds None to the list. *)
C3_PrefixesArePresentNonRootPaths ==
    (HandledByMiddlewares /\ Has(items[idx - 1].spec, "rules")) =>
        LET expected == StrippedPaths(items[idx - 1]) IN
        IF expected = <<>> THEN middleware = EmptyDict
        ELSE /\ middleware # EmptyDict
             /\ middleware.spec.stripPrefix.prefixes = expected

-----------------------------------------------------------------------------
(* C4: the routes of the consolidated document are one route per (rule, path
   entry) pair of every resource with a rules list, in resource, rule, path
   order, none dropped, reordered or merged; their number is the sum of the
   resources' pair counts. *)
C4_OneRoutePerPairInOrder ==
    Written =>
        /\ Aligned
        /\ \A n \in 1..Len(WrittenRoutes) :
              LET t == PairSeq(pulled[1])[n]
                  item == ItemOf(pulled[1], t)
              IN WrittenRoutes[n] =
                    Route(NameOf(item), NamespaceOf(item),
                          Get(RuleOf(pulled[1], t), "host", "NO_HOST_KEY"),
                          EntryOf(pulled[1], t), DefaultPriority,
                          middleware_namespace)

(* C4 witness: two resources, the first with two rules and three path
   entries, have given four routes. *)
C4_Witness ==
    /\ pc = "done"
    /\ Len(pulled[1]) = 2
    /\ Len(RulesOfItem(pulled[1][1])) = 2
    /\ Cardinality(Pairs(<<pulled[1][1]>>)) = 3
    /\ Len(WrittenRoutes) = 4

-----------------------------------------------------------------------------
(* C5: a route has `services` iff backend, backend.service and
   backend.service.port are all present; it is then the single entry
   {kind: "Service", name: service.name, namespace: the resource's namespace
   or "default", port: port.number if present, otherwise port.name}. *)
C5_ServicesIffFullBackend ==
    Written =>
        /\ Aligned
        /\ \A n \in 1..Len(WrittenRoutes) :
              LET t == PairSeq(pulled[1])[n]
                  e == EntryOf(pulled[1], t)
                  r == WrittenRoutes[n]
                  full == /\ Has(e, "backend")
                          /\ Has(e.backend, "service")
                          /\ Has(e.backend.service, "port")
              IN /\ Has(r, "services") <=> full
                 /\ full =>
                      LET service == e.backend.service IN
                      r.services =
                        <<[kind |-> "Service",
                           name |-> IF Has(service, "name") THEN service.name
                                    ELSE None,
                           namespace |-> NamespaceOf(ItemOf(pulled[1], t)),
                           port |-> IF Has(service.port, "number")
                                    THEN service.port.number
                                    ELSE IF Has(service.port, "name")
                                    THEN service.port.name
                                    ELSE None]>>

(* C5 witness: a resource without namespace whose port has both a number and
   a name has given a route with the numeric port in namespace "default". *)
C5_Witness ==
    /\ Written
    /\ Len(WrittenRoutes) = 1
    /\ ~Has(pulled[1][1].metadata, "namespace")
    /\ Has(EntryOf(pulled[1], <<1, 1, 1>>), "backend")
    /\ EntryOf(pulled[1], <<1, 1, 1>>).backend =
          [service |-> [name |-> "svc1",
                        port |-> [number |-> "8080", name |-> "http"]]]
    /\ WrittenRoutes[1].services =
          <<[kind |-> "Service", name |-> "svc1", namespace |-> "default",
             port |-> "8080"]>>

-----------------------------------------------------------------------------
(* C6: every middleware document written by get_all_middlewares has
   metadata.namespace equal to the configured middleware namespace, the one
   the routes' middleware references carry.  Violated: the documents are
   always in "kube-system". *)
C6_MiddlewareDocsInConfiguredNamespace ==
    \A d \in MiddlewareDocs : d.metadata.namespace = middleware_namespace

-----------------------------------------------------------------------------
(* Every resource pulled so far has `metadata` and `spec`: only the optional
   fields named by C7 may be missing. *)
OnlyOptionalFieldsMissing ==
    \A k \in 1..Len(pulled) : \A i \in 1..Len(pulled[k]) :
        Has(pulled[k][i], "metadata") /\ Has(pulled[k][i], "spec")

HasPathEntries(item) == Pairs(<<item>>) # {}

(* C7: with any of the optional fields missing no error state is reached and
   the run can always go on until it is done; the
   namespace defaults to "default"; a resource without `rules`, and a rule
   without `http` or without `paths`, add no route, and no middleware document
   is written for a resource name none of whose resources has a path entry. *)
C7_MissingOptionalFieldsTolerated ==
    OnlyOptionalFieldsMissing =>
        /\ ~err
        /\ pc # "raised"
        /\ (pc = "done" \/ ENABLED Program)
        /\ Written =>
              /\ Len(WrittenRoutes) = Cardinality(Pairs(pulled[1]))
              /\ \A i \in 1..Len(pulled[1]) :
                    (~Has(pulled[1][i].spec, "rules")
                       => \A t \in Pairs(pulled[1]) : t[1] # i)
              /\ \A n \in 1..Len(WrittenRoutes) :
                    Has(WrittenRoutes[n], "services") =>
                       WrittenRoutes[n].services[1].namespace =
                          NamespaceOf(ItemOf(pulled[1], PairSeq(pulled[1])[n]))
        /\ \A d \in MiddlewareDocs :
              \E i \in 1..Len(items) :
                 /\ NameOf(items[i]) \o "-mw" = d.metadata.name
                 /\ HasPathEntries(items[i])

(* C7 witness: a run over a resource without `rules` and a resource without
   namespace whose rules have no `http` and no `paths` has completed. *)
C7_Witness ==
    /\ pc = "done"
    /\ ~err
    /\ Len(pulled[2]) = 2
    /\ ~Has(pulled[2][1].spec, "rules")
    /\ ~Has(pulled[2][2].metadata, "namespace")
    /\ Has(pulled[2][2].spec, "rules")
    /\ Len(pulled[2][2].spec.rules) = 2
    /\ ~Has(pulled[2][2].spec.rules[1], "http")
    /\ Has(pulled[2][2].spec.rules[2], "http")
    /\ ~Has(pulled[2][2].spec.rules[2].http, "paths")
    /\ WrittenRoutes = <<>>
    /\ MiddlewareDocs = {}

-----------------------------------------------------------------------------
(* C8: in one run the resource list is pulled exactly once, and routes and
   middleware documents both come from that one list.  Violated: each of the
   two methods pulls the list itself. *)
C8_PulledOnce == pc = "done" => Len(pulled) = 1

-----------------------------------------------------------------------------
RoutesDerivedForAll ==
    \/ pc \in {"get_all_middlewares", "middlewares", "done"}
    \/ pc = "routes" /\ idx > Len(items)

MiddlewaresDerivedForAll ==
    \/ pc = "done"
    \/ pc = "middlewares" /\ idx > Len(items)
    \/ pc = "get_all_middlewares" /\ GetItems(Exported) = <<>>

(* C9: no document is in the sink before routes and middleware documents have
   been derived for all resources.  Violated: the consolidated document is
   written before any middleware is derived, and each middleware document is
   written before the next resource's is derived. *)
C9_NoWriteBeforeAllDerived ==
    sink # EmptyDict => (RoutesDerivedForAll /\ MiddlewaresDerivedForAll)

-----------------------------------------------------------------------------
(* C10: after a full run over one snapshot, every route with a middleware
   reference named N finds in the sink a middleware document named N whose
   prefixes contain the route's path.  Violated: resources of the same name in
   different namespaces write the same file, the later replacing the earlier. *)
C10_ReferencedMiddlewareCoversPath ==
    (pc = "done" /\ pulled[1] = pulled[2]) =>
        /\ Aligned
        /\ \A n \in 1..Len(WrittenRoutes) :
              Has(WrittenRoutes[n], "middlewares") =>
                 \E d \in MiddlewareDocs :
                    /\ d.metadata.name = WrittenRoutes[n].middlewares[1].name
                    /\ \E k \in 1..Len(d.spec.stripPrefix.prefixes) :
                          d.spec.stripPrefix.prefixes[k] =
                             EntryOf(pulled[1], PairSeq(pulled[1])[n]).path

====
